---------------------------- MODULE Spec2Model ----------------------------
(***************************************************************************)
(* Schedule resolution of kelvin-ng (configuration.go): parsing of the     *)
(* `time` field of a TimedColorTemperature, its resolution to a TimeStamp, *)
(* the new-style day schedule with its clamping, the selection of a        *)
(* light's schedule and the old-style (beforeSunrise/afterSunset) lists.   *)
(*                                                                         *)
(* A string is a sequence of one-character strings.  An instant is a       *)
(* number of minutes counted from the zero time.Time (0001-01-01 00:00);   *)
(* seconds are not modelled: the code only adds whole minutes and compares *)
(* instants.  Locations are fixed-offset, so a calendar day has 1440       *)
(* minutes.  A panic of the Go runtime is an outcome of its own,           *)
(* distinct from a returned error.                                         *)
(***************************************************************************)
EXTENDS Integers, Sequences, FiniteSets, TLC

VARIABLES configuration, color, call, ret

vars == <<configuration, color, call, ret>>

-----------------------------------------------------------------------------
(* Characters and strings *)

Digits == {"0", "1", "2", "3", "4", "5", "6", "7", "8", "9"}

DigitValue ==
    [c \in Digits |->
        CASE c = "0" -> 0 [] c = "1" -> 1 [] c = "2" -> 2 [] c = "3" -> 3
          [] c = "4" -> 4 [] c = "5" -> 5 [] c = "6" -> 6 [] c = "7" -> 7
          [] c = "8" -> 8 [] c = "9" -> 9]

\* \s of Go's regexp syntax: [\t\n\f\r ]
Spaces == {" ", "\t", "\n", "\f", "\r"}

\* \d of Go's regexp syntax at position i of s
IsDigit(s, i) == i >= 1 /\ i <= Len(s) /\ s[i] \in Digits

IsSpace(s, i) == i >= 1 /\ i <= Len(s) /\ s[i] \in Spaces

CharAt(s, i, c) == i >= 1 /\ i <= Len(s) /\ s[i] = c

\* s[i..j-1]
Slice(s, i, j) == IF j <= i THEN <<>> ELSE SubSeq(s, i, j - 1)

HasPrefixAt(s, i, lit) ==
    /\ i + Len(lit) - 1 <= Len(s)
    /\ \A k \in 1..Len(lit) : s[i + k - 1] = lit[k]

RECURSIVE SkipSpaces(_, _)
\* the position after a greedy \s* started at i
SkipSpaces(s, i) == IF IsSpace(s, i) THEN SkipSpaces(s, i + 1) ELSE i

RECURSIVE SkipDigits(_, _)
\* the position after a greedy \d* started at i
SkipDigits(s, i) == IF IsDigit(s, i) THEN SkipDigits(s, i + 1) ELSE i

RECURSIVE EndOfLine(_, _)
\* the position after a greedy .* started at i (. does not match a newline)
EndOfLine(s, i) ==
    IF i <= Len(s) /\ s[i] # "\n" THEN EndOfLine(s, i + 1) ELSE i

SUNRISE == <<"s", "u", "n", "r", "i", "s", "e">>
SUNSET == <<"s", "u", "n", "s", "e", "t">>

-----------------------------------------------------------------------------
\* The regular expression of AsTimestamp2:
\* (?P<time>\d{1,2}:\d\d)|(?P<spec>(sunrise|sunset)(\s*(\+|-)\s*(\d+)\s*m.*){0,1})

\* \d{1,2}:\d\d tried at position i: the position after the match, 0 if none.
\* The repetition is greedy: two digits are tried before one.
MatchTimeAt(s, i) ==
    IF /\ IsDigit(s, i) /\ IsDigit(s, i + 1) /\ CharAt(s, i + 2, ":")
       /\ IsDigit(s, i + 3) /\ IsDigit(s, i + 4)
    THEN i + 5
    ELSE IF /\ IsDigit(s, i) /\ CharAt(s, i + 1, ":")
            /\ IsDigit(s, i + 2) /\ IsDigit(s, i + 3)
         THEN i + 4
         ELSE 0

\* (sunrise|sunset) tried at position i: the word matched, <<>> if none
MatchWordAt(s, i) ==
    IF HasPrefixAt(s, i, SUNRISE) THEN SUNRISE
    ELSE IF HasPrefixAt(s, i, SUNSET) THEN SUNSET
    ELSE <<>>

\* The offset group \s*(\+|-)\s*(\d+)\s*m.* tried at position j: the groups 4, 5, 6 and the
\* position after the match; ok is FALSE when the group does not match.
MatchOffsetAt(s, j) ==
    LET a == SkipSpaces(s, j)
        b == SkipSpaces(s, a + 1)
        c == SkipDigits(s, b)
        d == SkipSpaces(s, c)
        e == EndOfLine(s, d + 1)
    IN  IF /\ (CharAt(s, a, "+") \/ CharAt(s, a, "-"))
           /\ c > b
           /\ CharAt(s, d, "m")
        THEN [ok |-> TRUE, text |-> Slice(s, j, e), sign |-> s[a],
              digits |-> Slice(s, b, c), end |-> e]
        ELSE [ok |-> FALSE, text |-> <<>>, sign |-> "", digits |-> <<>>, end |-> j]

\* The submatches of a match starting at position i, m[0]..m[6] of the code
\* being all, time, spec, word, offset, sign, digits.  isNil: no match at i.
NoMatch ==
    [isNil |-> TRUE, all |-> <<>>, time |-> <<>>, spec |-> <<>>, word |-> <<>>,
     offset |-> <<>>, sign |-> "", digits |-> <<>>]

\* a match of the first alternative
TimeMatch(text) ==
    [NoMatch EXCEPT !.isNil = FALSE, !.all = text, !.time = text]

\* a match of the second alternative: the word w and the offset group o,
\* which is optional and greedy
SpecMatch(w, o) ==
    [isNil |-> FALSE, all |-> w \o o.text, time |-> <<>>, spec |-> w \o o.text,
     word |-> w, offset |-> o.text, sign |-> o.sign, digits |-> o.digits]

\* the second alternative tried at position i, w being its word there
WordMatchAt(s, i, w) ==
    IF w = <<>> THEN NoMatch ELSE SpecMatch(w, MatchOffsetAt(s, i + Len(w)))

\* the first alternative tried at position i, t being the position after it
TimeMatchAt(s, i, t) ==
    IF t # 0 THEN TimeMatch(Slice(s, i, t)) ELSE WordMatchAt(s, i, MatchWordAt(s, i))

\* the expression tried at position i: the first alternative goes first
MatchAt(s, i) == TimeMatchAt(s, i, MatchTimeAt(s, i))

RECURSIVE FindFrom(_, _)
\* the leftmost position from i on where the expression matches, 0 if none
FindFrom(s, i) ==
    IF i > Len(s) THEN 0
    ELSE IF ~MatchAt(s, i).isNil THEN i
    ELSE FindFrom(s, i + 1)

\* the match at the position found
MatchFound(s, i) == IF i = 0 THEN NoMatch ELSE MatchAt(s, i)

\* re.FindStringSubmatch: the leftmost match, nil when there is none
FindStringSubmatch(s) == MatchFound(s, FindFrom(s, 1))

-----------------------------------------------------------------------------
(* time.Parse("15:04", s) and strconv.Atoi *)

HoursPerDay == 24
MinutesPerHour == 60
MinutesPerDay == 1440

\* getnum(value, false) followed by the literal ":" and getnum(value, true),
\* with the range checks of the hour and the minute and the check that no
\* text is left.
TimeParse(s) ==
    LET two == IsDigit(s, 1) /\ IsDigit(s, 2)
        h == IF two THEN DigitValue[s[1]] * 10 + DigitValue[s[2]]
             ELSE IF IsDigit(s, 1) THEN DigitValue[s[1]] ELSE 0
        p == IF two THEN 3 ELSE 2
        okShape == /\ IsDigit(s, 1)
                   /\ CharAt(s, p, ":")
                   /\ IsDigit(s, p + 1) /\ IsDigit(s, p + 2)
                   /\ Len(s) = p + 2
        m == IF okShape THEN DigitValue[s[p + 1]] * 10 + DigitValue[s[p + 2]] ELSE 0
    IN  IF okShape /\ h < HoursPerDay /\ m < MinutesPerHour
        THEN [err |-> "nil", Hour |-> h, Minute |-> m]
        ELSE [err |-> "parsing time", Hour |-> 0, Minute |-> 0]

RECURSIVE DecimalValue(_)
DecimalValue(ds) ==
    IF ds = <<>> THEN 0
    ELSE DecimalValue(SubSeq(ds, 1, Len(ds) - 1)) * 10 + DigitValue[ds[Len(ds)]]

\* the decimal digits of the largest int (64 bits)
MaxIntDigits ==
    <<"9", "2", "2", "3", "3", "7", "2", "0", "3", "6", "8", "5", "4", "7", "7",
      "5", "8", "0", "7">>

RECURSIVE StripZeros(_)
StripZeros(ds) ==
    IF Len(ds) > 1 /\ ds[1] = "0" THEN StripZeros(Tail(ds)) ELSE ds

RECURSIVE DigitsGreater(_, _)
\* ds > es for digit strings of equal length
DigitsGreater(ds, es) ==
    IF ds = <<>> THEN FALSE
    ELSE IF ds[1] # es[1] THEN DigitValue[ds[1]] > DigitValue[es[1]]
    ELSE DigitsGreater(Tail(ds), Tail(es))

\* strconv.Atoi of a string of digits: a range error beyond the largest int
Atoi(ds) ==
    LET n == StripZeros(ds)
    IN  IF \/ Len(n) > Len(MaxIntDigits)
           \/ (Len(n) = Len(MaxIntDigits) /\ DigitsGreater(n, MaxIntDigits))
        THEN [err |-> "strconv.Atoi", value |-> 0]
        ELSE [err |-> "nil", value |-> DecimalValue(n)]

-----------------------------------------------------------------------------
(* Instants *)

\* referenceTime.Date(): the calendar day of an instant
DayOf(t) == t \div MinutesPerDay

\* time.Date(yr, mth, day, hour, min, 0, 0, location)
Date(day, hour, min) == day * MinutesPerDay + hour * MinutesPerHour + min

\* date.AddDate(0, 0, n)
AddDays(t, n) == t + n * MinutesPerDay

\* time.Date(yr, mth, dy, 23, 59, 59, 59, date.Location()), in whole minutes
EndOfDay(date) == Date(DayOf(date), HoursPerDay - 1, MinutesPerHour - 1)

-----------------------------------------------------------------------------
(* TimeStamp, TimePointType and the two parsers *)

FixedTimePoint == 0
Sunrise == 1
Sunset == 2

\* the zero values of TimeStamp and Schedule
ZeroTimeStamp == [Time |-> 0, ColorTemperature |-> 0, Brightness |-> 0]

ZeroSchedule ==
    [endOfDay |-> 0, sunrise |-> ZeroTimeStamp, sunset |-> ZeroTimeStamp,
     times |-> <<>>, beforeSunrise |-> <<>>, afterSunset |-> <<>>,
     enableWhenLightsAppear |-> FALSE]

\* TimeStamp{t, color.ColorTemperature, color.Brightness}
Stamp(t, c) ==
    [Time |-> t, ColorTemperature |-> c.ColorTemperature, Brightness |-> c.Brightness]

\* the instant of a parsed HH:MM on the day of referenceTime
FixedTime(referenceTime, t) == Date(DayOf(referenceTime), t.Hour, t.Minute)

\* AsTimestamp: time.Parse of the whole string, on the day of referenceTime.
\* now is the value of time.Now() that the error return carries.
Parsed(c, t, referenceTime, now) ==
    IF t.err # "nil"
    THEN [ts |-> Stamp(now, c), err |-> t.err]
    ELSE [ts |-> Stamp(FixedTime(referenceTime, t), c), err |-> "nil"]

AsTimestamp(c, referenceTime, now) ==
    Parsed(c, TimeParse(c.Time), referenceTime, now)

\* OffsetTime with the sign of the offset left aside
OffsetTimeAlwaysAdded(t, sign, minutes) == t + minutes

\* a sunrise or sunset instant moved by the offset of the specification
OffsetTime(t, sign, minutes) ==
    IF sign = "+" THEN t + minutes ELSE t - minutes

\* what AsTimestamp2 hands back: a time stamp, a time point type and an
\* error, or a panic of the runtime
Returned2(ts, type, err) == [ts |-> ts, type |-> type, err |-> err, panic |-> FALSE]

Panicked2 ==
    [ts |-> ZeroTimeStamp, type |-> FixedTimePoint, err |-> "nil", panic |-> TRUE]

\* the branch of a time of the form hh:mm, t being the result of time.Parse
FixedBranch(c, t, referenceTime, now) ==
    IF t.err # "nil"
    THEN Returned2(Stamp(now, c), FixedTimePoint, t.err)
    ELSE Returned2(Stamp(FixedTime(referenceTime, t), c), FixedTimePoint, "nil")

\* the offset of the sunrise or sunset branch, minutes being the result of
\* strconv.Atoi
OffsetBranch(c, matches, minutes, base, type, now) ==
    IF minutes.err # "nil"
    THEN Returned2(Stamp(now, c), FixedTimePoint, minutes.err)
    ELSE Returned2(Stamp(OffsetTime(base, matches.sign, minutes.value), c), type, "nil")

\* the branch of sunrise|sunset [(+|-) NN minutes]
SunBranch(c, matches, base, type, now) ==
    IF Len(matches.offset) > 0
    THEN OffsetBranch(c, matches, Atoi(matches.digits), base, type, now)
    ELSE Returned2(Stamp(base, c), type, "nil")

\* AsTimestamp2 from the result of FindStringSubmatch on.  matches[0] of a
\* nil result is an index out of range: the runtime panics.  A match is
\* never empty, so the "Invalid timestamp" return is taken by no string.
Matched2(c, matches, referenceTime, sunrise, sunset, now) ==
    IF matches.isNil THEN Panicked2
    ELSE IF Len(matches.all) = 0
    THEN Returned2(Stamp(now, c), FixedTimePoint, "Invalid timestamp")
    ELSE IF Len(matches.time) > 0
    THEN FixedBranch(c, TimeParse(c.Time), referenceTime, now)
    ELSE IF Len(matches.spec) > 0
    THEN IF matches.word = SUNRISE
         THEN SunBranch(c, matches, sunrise, Sunrise, now)
         ELSE SunBranch(c, matches, sunset, Sunset, now)
    ELSE Returned2(Stamp(0, c), FixedTimePoint, "nil")

AsTimestamp2(c, referenceTime, sunrise, sunset, now) ==
    Matched2(c, FindStringSubmatch(c.Time), referenceTime, sunrise, sunset, now)

-----------------------------------------------------------------------------
(* ComputeNewStyleSchedule *)

\* ClampedTimestamp without the test for equal instants
ClampedTimestampBeforeOnly(timestamp, previousTime) ==
    IF timestamp.Time < previousTime
    THEN [timestamp EXCEPT !.Time = previousTime + 1]
    ELSE timestamp

\* ClampedTimestamp with a clamp that builds a new TimeStamp of the instant alone
ClampedTimestampTimeOnly(timestamp, previousTime) ==
    IF timestamp.Time < previousTime \/ timestamp.Time = previousTime
    THEN [ZeroTimeStamp EXCEPT !.Time = previousTime + 1]
    ELSE timestamp

\* the time stamp as it is appended: an instant before or equal to the one
\* of the previous element is set to one minute after it
ClampedTimestamp(timestamp, previousTime) ==
    IF timestamp.Time < previousTime \/ timestamp.Time = previousTime
    THEN [timestamp EXCEPT !.Time = previousTime + 1]
    ELSE timestamp

\* AppendTimepoint leaving out a time stamp that is not after the previous one
AppendTimepointDropInverted(timeStamps, timestamp) ==
    IF timestamp.Time <= timeStamps[Len(timeStamps)].Time
    THEN timeStamps
    ELSE Append(timeStamps, timestamp)

\* one iteration of the loop after its AsTimestamp2 succeeded
AppendTimepoint(timeStamps, timestamp) ==
    Append(timeStamps, ClampedTimestamp(timestamp, timeStamps[Len(timeStamps)].Time))

\* what ComputeNewStyleSchedule hands back: the slice and an error, or a panic
ReturnedSchedule(timeStamps, err) ==
    [timeStamps |-> timeStamps, err |-> err, panic |-> FALSE]

PanickedSchedule == [timeStamps |-> <<>>, err |-> "nil", panic |-> TRUE]

RECURSIVE NewStyleLoop(_, _, _, _, _, _, _)
RECURSIVE LoopStep(_, _, _, _, _, _, _, _)
\* the loop over configSchedule from its k-th element on; the result is the
\* return of the function when err is not "nil" or panic is TRUE
NewStyleLoop(configSchedule, k, timeStamps, sunrise, sunset, date, now) ==
    IF k > Len(configSchedule) THEN ReturnedSchedule(timeStamps, "nil")
    ELSE LoopStep(configSchedule, k, timeStamps,
                  AsTimestamp2(configSchedule[k], date, sunrise, sunset, now),
                  sunrise, sunset, date, now)

\* the k-th iteration, r being what AsTimestamp2 returned for the element
LoopStep(configSchedule, k, timeStamps, r, sunrise, sunset, date, now) ==
    IF r.panic THEN PanickedSchedule
    ELSE IF r.err # "nil" THEN ReturnedSchedule(timeStamps, r.err)
    ELSE NewStyleLoop(configSchedule, k + 1, AppendTimepoint(timeStamps, r.ts),
                      sunrise, sunset, date, now)

\* the end of the function, next being what AsTimestamp2 returned for the
\* first element on the next day
AfterLoop(timeStamps, next) ==
    IF next.panic THEN PanickedSchedule
    ELSE IF next.err # "nil" THEN ReturnedSchedule(timeStamps, next.err)
    ELSE ReturnedSchedule(Append(timeStamps, next.ts), "nil")

\* the function after its loop, loop being the outcome of the loop
AfterPrevious(configSchedule, loop, sunrise, sunset, date, now) ==
    IF loop.panic \/ loop.err # "nil" THEN loop
    ELSE AfterLoop(loop.timeStamps,
                   AsTimestamp2(configSchedule[1], AddDays(date, 1), sunrise, sunset, now))

\* the function from its first AsTimestamp2 on, previous being what that
\* returned for the last element on the previous day
FromPrevious(configSchedule, previous, sunrise, sunset, date, now) ==
    IF previous.panic THEN PanickedSchedule
    ELSE IF previous.err # "nil" THEN ReturnedSchedule(<<>>, previous.err)
    ELSE AfterPrevious(configSchedule,
                       NewStyleLoop(configSchedule, 1, <<previous.ts>>,
                                    sunrise, sunset, date, now),
                       sunrise, sunset, date, now)

\* configSchedule[len(configSchedule)-1] of an empty slice is an index out
\* of range: the runtime panics.
ComputeNewStyleSchedule(configSchedule, sunrise, sunset, date, now) ==
    IF Len(configSchedule) = 0 THEN PanickedSchedule
    ELSE FromPrevious(configSchedule,
                      AsTimestamp2(configSchedule[Len(configSchedule)],
                                   AddDays(date, -1), sunrise, sunset, now),
                      sunrise, sunset, date, now)

-----------------------------------------------------------------------------
(* lightScheduleForDay *)

\* containsInt(ids, light)
containsInt(ids, light) == \E i \in 1..Len(ids) : ids[i] = light

RECURSIVE FindLightScheduleFrom(_, _, _)
FindLightScheduleFrom(schedules, light, i) ==
    IF i > Len(schedules) THEN 0
    ELSE IF containsInt(schedules[i].AssociatedDeviceIDs, light) THEN i
    ELSE FindLightScheduleFrom(schedules, light, i + 1)

RECURSIVE FindLightScheduleLastFrom(_, _, _)
FindLightScheduleLastFrom(schedules, light, i) ==
    IF i < 1 THEN 0
    ELSE IF containsInt(schedules[i].AssociatedDeviceIDs, light) THEN i
    ELSE FindLightScheduleLastFrom(schedules, light, i - 1)

\* FindLightSchedule without the break: the last candidate that contains the light
FindLightScheduleLast(schedules, light) ==
    FindLightScheduleLastFrom(schedules, light, Len(schedules))

\* the loop over configuration.Schedules, left at the first candidate that
\* contains the light: its index, 0 when found stays false
FindLightSchedule(schedules, light) == FindLightScheduleFrom(schedules, light, 1)

\* the stand-in of the tests for the sunrise and sunset calculation
CalculateSunrise(calculator, date) == calculator.MockSunrise
CalculateSunset(calculator, date) == calculator.MockSunset

RECURSIVE LegacyTimestampsStopAtError(_, _, _)
\* LegacyTimestamps with a loop that ends at the first candidate rejected
LegacyTimestampsStopAtError(candidates, date, now) ==
    IF candidates = <<>> THEN <<>>
    ELSE IF AsTimestamp(Head(candidates), date, now).err # "nil" THEN <<>>
    ELSE <<AsTimestamp(Head(candidates), date, now).ts>>
            \o LegacyTimestampsStopAtError(Tail(candidates), date, now)

RECURSIVE LegacyTimestamps(_, _, _)
\* a loop over the beforeSunrise or afterSunset candidates: one that
\* AsTimestamp rejects is logged and left out
LegacyTimestamps(candidates, date, now) ==
    IF candidates = <<>> THEN <<>>
    ELSE IF AsTimestamp(Head(candidates), date, now).err # "nil"
    THEN LegacyTimestamps(Tail(candidates), date, now)
    ELSE <<AsTimestamp(Head(candidates), date, now).ts>>
            \o LegacyTimestamps(Tail(candidates), date, now)

\* what lightScheduleForDay hands back: a Schedule and an error, or a panic
ReturnedDay(schedule, err) == [schedule |-> schedule, err |-> err, panic |-> FALSE]

PanickedDay == [schedule |-> ZeroSchedule, err |-> "nil", panic |-> TRUE]

\* schedule.sunrise or schedule.sunset
SunStamp(t, lightSchedule) ==
    [Time |-> t, ColorTemperature |-> lightSchedule.DefaultColorTemperature,
     Brightness |-> lightSchedule.DefaultBrightness]

\* the new-style branch, new being what ComputeNewStyleSchedule returned
NewStyleBranch(schedule, new) ==
    IF new.panic THEN PanickedDay
    ELSE IF new.err # "nil" THEN ReturnedDay(schedule, new.err)
    ELSE ReturnedDay([schedule EXCEPT !.times = new.timeStamps], "nil")

\* the old-style branch
OldStyleBranch(schedule, lightSchedule, date, now) ==
    ReturnedDay(
        [schedule EXCEPT
            !.beforeSunrise = LegacyTimestamps(lightSchedule.BeforeSunrise, date, now),
            !.afterSunset = LegacyTimestamps(lightSchedule.AfterSunset, date, now),
            !.enableWhenLightsAppear = lightSchedule.EnableWhenLightsAppear],
        "nil")

\* the function for the light schedule found, schedule holding the end of
\* the day, the sunrise and the sunset
ForLightSchedule(schedule, lightSchedule, date, now) ==
    IF Len(lightSchedule.Schedule) > 0
    THEN NewStyleBranch(schedule,
                        ComputeNewStyleSchedule(lightSchedule.Schedule,
                                                schedule.sunrise.Time,
                                                schedule.sunset.Time, date, now))
    ELSE OldStyleBranch(schedule, lightSchedule, date, now)

\* the function after its selection loop, found being the index of the
\* light schedule, 0 when there is none
Selected(schedules, found, schedule, date, calculator, now) ==
    IF found = 0
    THEN ReturnedDay(schedule, "Light is not associated with any schedule in configuration")
    ELSE ForLightSchedule(
             [schedule EXCEPT
                !.sunrise = SunStamp(CalculateSunrise(calculator, date), schedules[found]),
                !.sunset = SunStamp(CalculateSunset(calculator, date), schedules[found])],
             schedules[found], date, now)

lightScheduleForDay(config, light, date, calculator, now) ==
    Selected(config.Schedules, FindLightSchedule(config.Schedules, light),
             [ZeroSchedule EXCEPT !.endOfDay = EndOfDay(date)], date, calculator, now)

-----------------------------------------------------------------------------
(* The inputs the operations are applied to *)

MaxAnchors == 3
MaxLegacy == 2
MaxSchedules == 2
MaxOffset == 11

\* all sequences over S of a length from lo to n
SeqsBetween(S, lo, n) == UNION {[1..k -> S] : k \in lo..n}

\* a TimedColorTemperature
Timed(time, ct, br) == [Time |-> time, ColorTemperature |-> ct, Brightness |-> br]

\* the decimal digits of n, as strconv.Itoa writes them
RECURSIVE Itoa(_)
Itoa(n) ==
    LET d == CHOOSE c \in Digits : DigitValue[c] = n % 10
    IN  IF n < 10 THEN <<d>> ELSE Itoa(n \div 10) \o <<d>>

\* 2021-04-28, the day of TestLightScheduleForDay, counted from 0001-01-01
TestDay == 737907

Dates == {Date(TestDay, 0, 0), Date(TestDay + 1, 12, 0)}
Lights == {1, 2}
SunriseMinutes == {Date(0, 3, 0), Date(0, 7, 30)}
SunsetMinutes == {Date(0, 20, 0), Date(0, 23, 45)}
Nows == {Date(TestDay + 7, 9, 0), Date(TestDay + 7, 9, 1)}

\* the sunrise and sunset instants of the day of date
SunInstants(date, minutes) == {Date(DayOf(date), 0, 0) + m : m \in minutes}

T0400 == <<"4", ":", "0", "0">>
T2200 == <<"2", "2", ":", "0", "0">>
T2359 == <<"2", "3", ":", "5", "9">>
T2599 == <<"2", "5", ":", "9", "9">>
MOONRISE == <<"m", "o", "o", "n", "r", "i", "s", "e">>
PLUS30M == <<" ", "+", " ", "3", "0", "m">>
MINUS30M == <<" ", "-", " ", "3", "0", "m">>

\* the anchors of the new-style schedules
UnifiedAnchors ==
    {Timed(T0400, 2000, 60), Timed(T2200, 2000, 70), Timed(T2359, 2300, 80),
     Timed(SUNRISE, 2700, 60), Timed(SUNSET \o PLUS30M, 2700, 80),
     Timed(T2599, 2500, 99), Timed(MOONRISE, 4000, 50)}

\* the anchors of the old-style lists
LegacyAnchors ==
    {Timed(T0400, 2000, 60), Timed(T2200, 2000, 70), Timed(SUNRISE, 2700, 60),
     Timed(T2599, 2500, 99)}

\* the schedule of testdata/config-example-newstyleschedule.json, as the
\* expected times of TestLightScheduleForDay show it
TestSchedule ==
    <<Timed(T0400, 2000, 60), Timed(SUNRISE, 2700, 60),
      Timed(SUNRISE \o PLUS30M, 5000, 100), Timed(SUNSET \o MINUS30M, 5000, 100),
      Timed(SUNSET, 2700, 80), Timed(T2200, 2000, 70)>>

\* a LightSchedule
Definition(ids, enable, ct, br, before, after, schedule) ==
    [AssociatedDeviceIDs |-> ids, EnableWhenLightsAppear |-> enable,
     DefaultColorTemperature |-> ct, DefaultBrightness |-> br,
     BeforeSunrise |-> before, AfterSunset |-> after, Schedule |-> schedule]

\* configurations of one definition with a new-style schedule; its
\* old-style lists are set as well, and are not used
UnifiedConfigurations ==
    {[Schedules |-> <<Definition(<<1>>, TRUE, 2750, 100,
                                 <<Timed(T0400, 2000, 60)>>, <<Timed(T2200, 2000, 70)>>, s)>>] :
        s \in SeqsBetween(UnifiedAnchors, 1, MaxAnchors) \cup {TestSchedule}}

\* configurations of one definition with old-style lists only
LegacyConfigurations ==
    {[Schedules |-> <<Definition(<<1>>, e, 2750, 100, b, a, <<>>)>>] :
        e \in BOOLEAN,
        b \in SeqsBetween(LegacyAnchors, 0, MaxLegacy),
        a \in SeqsBetween(LegacyAnchors, 0, MaxLegacy)}

\* configurations of several definitions, which may share a light
SelectableDefinitions ==
    {Definition(ids, TRUE, 2700, 100, <<>>, <<>>, <<Timed(T2200, 2000, 70)>>) :
        ids \in {<<1>>, <<2>>, <<2, 1>>}}
    \cup {Definition(ids, TRUE, 3000, 80, <<Timed(T0400, 2000, 60)>>,
                     <<Timed(T2200, 2000, 70)>>, <<>>) :
        ids \in {<<1>>, <<2>>, <<2, 1>>}}
    \cup {Definition(ids, FALSE, 2000, 60, <<>>, <<>>, <<>>) :
        ids \in {<<1>>, <<2>>, <<2, 1>>}}

SelectConfigurations ==
    {[Schedules |-> s] : s \in SeqsBetween(SelectableDefinitions, 0, MaxSchedules)}

\* the time specifications the parsers are applied to on their own
FixedStrings ==
    {Itoa(h) \o <<":">> \o pad \o Itoa(m) :
        h \in {0, 4, 9, 12, 23, 24, 25}, pad \in {<<>>, <<"0">>}, m \in {0, 5, 30, 59, 60, 99}}

Units == {<<>>, <<"m">>, <<"m", "i", "n">>, <<"m", "i", "n", "u", "t", "e", "s">>,
          <<"h">>, <<"m", " ", "x">>}

OffsetStrings ==
    {w \o s1 \o sign \o s2 \o Itoa(n) \o s3 \o unit :
        w \in {SUNRISE, SUNSET}, s1 \in {<<>>, <<" ">>}, sign \in {<<"+">>, <<"-">>},
        s2 \in {<<>>, <<" ">>}, n \in {0, MaxOffset - 1, MaxOffset},
        s3 \in {<<>>, <<" ">>}, unit \in Units}

OtherStrings ==
    {<<>>, SUNRISE, SUNSET, MOONRISE, <<"n", "o", "o", "n">>,
     <<"S", "u", "n", "r", "i", "s", "e">>, <<"S", "U", "N", "S", "E", "T">>,
     SUNRISE \o <<" ", "+", " ", "5", "M">>,
     <<"x">> \o SUNRISE, SUNSET \o <<" ">>, SUNRISE \o <<" ", "+", " ", "m">>,
     SUNRISE \o <<" ">> \o T0400, T0400 \o <<" ">> \o SUNRISE,
     <<"x">> \o T2200, T2200 \o <<"x">>, <<" ">> \o T2200, <<"1">> \o T2200,
     T2200 \o <<"0">>, <<"2", "2", ":", "5">>, <<"2", "2", "0", "0">>,
     SUNSET \o <<"\n", "+", "5", "m">>, SUNSET \o <<"+", "5", "\n", "m", "\n", "x">>}

TimeStrings == FixedStrings \cup OffsetStrings \cup OtherStrings

ZeroColor == Timed(<<>>, 0, 0)
ZeroConfiguration == [Schedules |-> <<>>]

-----------------------------------------------------------------------------
(* The state: the configuration read, the TimedColorTemperature the parsers *)
(* are applied to, the last call and what it returned                       *)

NoCall ==
    [op |-> "none", light |-> 0, index |-> 0, date |-> 0, sunrise |-> 0, sunset |-> 0]

NoRet ==
    [panic |-> FALSE, err |-> "nil", schedule |-> ZeroSchedule, timeStamps |-> <<>>,
     timeStamp |-> ZeroTimeStamp, timePointType |-> FixedTimePoint]

\* what the caller holds after each of the calls
DayRet(r) == [NoRet EXCEPT !.panic = r.panic, !.err = r.err, !.schedule = r.schedule]

BuildRet(r) ==
    [NoRet EXCEPT !.panic = r.panic, !.err = r.err, !.timeStamps = r.timeStamps]

Parse2Ret(r) ==
    [NoRet EXCEPT !.panic = r.panic, !.err = r.err, !.timeStamp = r.ts,
                  !.timePointType = r.type]

ParseRet(r) == [NoRet EXCEPT !.err = r.err, !.timeStamp = r.ts]

Init ==
    /\ configuration \in SelectConfigurations \cup LegacyConfigurations
    /\ color = ZeroColor
    /\ call = NoCall
    /\ ret = NoRet

InitBuild ==
    /\ configuration \in UnifiedConfigurations
    /\ color = ZeroColor
    /\ call = NoCall
    /\ ret = NoRet

InitParse ==
    /\ configuration = ZeroConfiguration
    /\ color \in {Timed(s, 2700, 60) : s \in TimeStrings}
    /\ call = NoCall
    /\ ret = NoRet

\* configuration.lightScheduleForDay(light, date, calculator)
CallLightScheduleForDay ==
    /\ call.op = "none"
    /\ \E light \in Lights, date \in Dates, now \in Nows :
      \E sunrise \in SunInstants(date, SunriseMinutes),
         sunset \in SunInstants(date, SunsetMinutes) :
        /\ call' = [NoCall EXCEPT !.op = "lightScheduleForDay", !.light = light,
                                  !.date = date, !.sunrise = sunrise, !.sunset = sunset]
        /\ ret' = DayRet(lightScheduleForDay(
                             configuration, light, date,
                             [MockSunrise |-> sunrise, MockSunset |-> sunset], now))
        /\ UNCHANGED <<configuration, color>>

\* ComputeNewStyleSchedule(configuration.Schedules[index].Schedule, sunrise, sunset, date)
CallComputeNewStyleSchedule ==
    /\ call.op = "none"
    /\ \E index \in 1..Len(configuration.Schedules), date \in Dates, now \in Nows :
      \E sunrise \in SunInstants(date, SunriseMinutes),
         sunset \in SunInstants(date, SunsetMinutes) :
        /\ call' = [NoCall EXCEPT !.op = "ComputeNewStyleSchedule", !.index = index,
                                  !.date = date, !.sunrise = sunrise, !.sunset = sunset]
        /\ ret' = BuildRet(ComputeNewStyleSchedule(
                               configuration.Schedules[index].Schedule,
                               sunrise, sunset, date, now))
        /\ UNCHANGED <<configuration, color>>

\* color.AsTimestamp2(referenceTime, sunrise, sunset)
CallAsTimestamp2 ==
    /\ call.op = "none"
    /\ \E date \in Dates, sunday \in Dates, now \in Nows :
      \E sunrise \in SunInstants(sunday, SunriseMinutes),
         sunset \in SunInstants(sunday, SunsetMinutes) :
        /\ call' = [NoCall EXCEPT !.op = "AsTimestamp2", !.date = date,
                                  !.sunrise = sunrise, !.sunset = sunset]
        /\ ret' = Parse2Ret(AsTimestamp2(color, date, sunrise, sunset, now))
        /\ UNCHANGED <<configuration, color>>

\* color.AsTimestamp(referenceTime)
CallAsTimestamp ==
    /\ call.op = "none"
    /\ \E date \in Dates, now \in Nows :
        /\ call' = [NoCall EXCEPT !.op = "AsTimestamp", !.date = date]
        /\ ret' = ParseRet(AsTimestamp(color, date, now))
        /\ UNCHANGED <<configuration, color>>

\* the caller takes the result; the next call starts from it
Return ==
    /\ call.op # "none"
    /\ call' = NoCall
    /\ ret' = NoRet
    /\ UNCHANGED <<configuration, color>>

Next == CallLightScheduleForDay \/ CallComputeNewStyleSchedule \/ Return

NextParse == CallAsTimestamp2 \/ CallAsTimestamp \/ Return

Spec == Init /\ [][Next]_vars

SpecBuild == InitBuild /\ [][Next]_vars

SpecParse == InitParse /\ [][NextParse]_vars

-----------------------------------------------------------------------------
(* What the properties are stated with *)

IsBuildCall == call.op = "ComputeNewStyleSchedule"
IsDayCall == call.op = "lightScheduleForDay"

\* the positions of the definitions that name the light of the call
Candidates ==
    {i \in 1..Len(configuration.Schedules) :
        \E j \in 1..Len(configuration.Schedules[i].AssociatedDeviceIDs) :
            configuration.Schedules[i].AssociatedDeviceIDs[j] = call.light}

FirstCandidate == CHOOSE i \in Candidates : \A j \in Candidates : i <= j

\* the new-style anchors the call resolves, <<>> when it resolves none
Anchors ==
    IF IsBuildCall THEN configuration.Schedules[call.index].Schedule
    ELSE IF IsDayCall /\ Candidates # {}
    THEN configuration.Schedules[FirstCandidate].Schedule
    ELSE <<>>

\* the sequence the call handed back
Resolved == IF IsBuildCall THEN ret.timeStamps ELSE ret.schedule.times

\* a new-style schedule was resolved with success
Succeeded ==
    /\ IsBuildCall \/ IsDayCall
    /\ Len(Anchors) >= 1
    /\ ~ret.panic
    /\ ret.err = "nil"

\* the instant anchor k resolves to on the day of date, before any clamp
Raw(k, date) ==
    AsTimestamp2(Anchors[k], date, call.sunrise, call.sunset, 0).ts.Time

\* the anchors the points of a resolved sequence come from, in order
Sources == <<Anchors[Len(Anchors)]>> \o Anchors \o <<Anchors[1]>>

StartOfDay(t) == Date(DayOf(t), 0, 0)

\* same-day point k of the sequence was clamped
Clamped(k) == k + 1 <= Len(Resolved) /\ Resolved[k + 1].Time # Raw(k, call.date)

-----------------------------------------------------------------------------
\* C1: the sequence a successful ComputeNewStyleSchedule returns is
\* non-decreasing over all adjacent pairs, the pair of the previous-day seed
\* and the first same-day point and the pair of the last same-day point and
\* the next-day head included.
C1_NonDecreasing ==
    Succeeded =>
        \A i \in 1..(Len(Resolved) - 1) : Resolved[i + 1].Time >= Resolved[i].Time

\* C2: the result brackets the current day: its first element is before the
\* start of the day of the call and its last element is after the end of it.
C2_BracketsCurrentDay ==
    Succeeded =>
        /\ Resolved[1].Time < StartOfDay(call.date)
        /\ Resolved[Len(Resolved)].Time > EndOfDay(call.date)

\* C3: a successful resolution of N anchors holds exactly N+2 points: the
\* last anchor on the previous day, the N anchors in declared order, each at
\* its own instant or at one minute after the point before it, and the first
\* anchor on the next day.
C3_ExactlyNPlusTwoPoints ==
    Succeeded =>
        /\ Len(Resolved) = Len(Anchors) + 2
        /\ Resolved[1].Time = Raw(Len(Anchors), AddDays(call.date, -1))
        /\ \A k \in 1..Len(Anchors) :
              Resolved[k + 1].Time \in {Raw(k, call.date), Resolved[k].Time + 1}
        /\ Resolved[Len(Anchors) + 2].Time = Raw(1, AddDays(call.date, 1))

C3_Witness ==
    /\ IsDayCall
    /\ Succeeded
    /\ Len(Anchors) >= 2
    /\ Len(Resolved) = Len(Anchors) + 2
    /\ \E k \in 1..Len(Anchors) : Clamped(k)

\* the expected times of TestLightScheduleForDay
TestExpectedTimes ==
    <<[Time |-> Date(TestDay - 1, 22, 0), ColorTemperature |-> 2000, Brightness |-> 70],
      [Time |-> Date(TestDay, 4, 0), ColorTemperature |-> 2000, Brightness |-> 60],
      [Time |-> Date(TestDay, 7, 30), ColorTemperature |-> 2700, Brightness |-> 60],
      [Time |-> Date(TestDay, 8, 0), ColorTemperature |-> 5000, Brightness |-> 100],
      [Time |-> Date(TestDay, 19, 30), ColorTemperature |-> 5000, Brightness |-> 100],
      [Time |-> Date(TestDay, 20, 0), ColorTemperature |-> 2700, Brightness |-> 80],
      [Time |-> Date(TestDay, 22, 0), ColorTemperature |-> 2000, Brightness |-> 70],
      [Time |-> Date(TestDay + 1, 4, 0), ColorTemperature |-> 2000, Brightness |-> 60]>>

IsTestCase ==
    /\ IsDayCall
    /\ call.light = 1
    /\ configuration.Schedules[1].Schedule = TestSchedule
    /\ call.date = Date(TestDay, 0, 0)
    /\ call.sunrise = Date(TestDay, 7, 30)
    /\ call.sunset = Date(TestDay, 20, 0)

C5_PairsCarried ==
    (IsBuildCall \/ IsDayCall) /\ ~ret.panic =>
        \A i \in 1..Len(Resolved) :
            /\ Resolved[i].ColorTemperature = Sources[i].ColorTemperature
            /\ Resolved[i].Brightness = Sources[i].Brightness

C5_Witness ==
    /\ Succeeded
    /\ \E k \in 1..Len(Anchors) :
          /\ Clamped(k)
          /\ Resolved[k + 1].ColorTemperature = Anchors[k].ColorTemperature
          /\ Resolved[k + 1].ColorTemperature # Resolved[k].ColorTemperature

-----------------------------------------------------------------------------
(* The grammar of the time specifications, as the specification states it *)

Letters ==
    {"a", "b", "c", "d", "e", "f", "g", "h", "i", "j", "k", "l", "m", "n", "o", "p",
     "q", "r", "s", "t", "u", "v", "w", "x", "y", "z"}

Lower(c) ==
    CASE c = "S" -> "s" [] c = "U" -> "u" [] c = "N" -> "n" [] c = "R" -> "r"
      [] c = "I" -> "i" [] c = "E" -> "e" [] c = "T" -> "t" [] c = "M" -> "m"
      [] OTHER -> c

LowerCase(s) == [i \in 1..Len(s) |-> Lower(s[i])]

\* the position of the colon of an HH:MM string, 0 when s is none
ColonOf(s) ==
    IF /\ Len(s) \in {4, 5}
       /\ CharAt(s, Len(s) - 2, ":")
       /\ \A i \in (1..Len(s)) \ {Len(s) - 2} : IsDigit(s, i)
    THEN Len(s) - 2 ELSE 0

HourOf(s) == DecimalValue(Slice(s, 1, ColonOf(s)))
MinuteOf(s) == DecimalValue(Slice(s, ColonOf(s) + 1, Len(s) + 1))

\* HH:MM with an hour and a minute of the clock
GrammarFixed(s) ==
    ColonOf(s) # 0 /\ HourOf(s) < HoursPerDay /\ MinuteOf(s) < MinutesPerHour

\* the word of a sunrise or sunset specification, <<>> when s has none
WordOf(s) == MatchWordAt(s, 1)

\* the places of the parts of an offset: sign, first digit, end of the
\* digits, unit
SignAt(s) == SkipSpaces(s, Len(WordOf(s)) + 1)
NumberAt(s) == SkipSpaces(s, SignAt(s) + 1)
NumberEnd(s) == SkipDigits(s, NumberAt(s))
UnitAt(s) == SkipSpaces(s, NumberEnd(s))

GrammarOffset(s) ==
    /\ CharAt(s, SignAt(s), "+") \/ CharAt(s, SignAt(s), "-")
    /\ NumberEnd(s) > NumberAt(s)
    /\ CharAt(s, UnitAt(s), "m")
    /\ \A i \in (UnitAt(s) + 1)..Len(s) : s[i] \in Letters

\* sunrise or sunset, alone or with a sign, a number and a word in m
GrammarSun(s) == WordOf(s) # <<>> /\ (Len(s) = Len(WordOf(s)) \/ GrammarOffset(s))

\* the whole string is of the grammar, whatever its case
GrammarValid(s) == GrammarFixed(s) \/ GrammarSun(LowerCase(s))

\* the signed offset of a sunrise or sunset specification, in minutes
OffsetOf(s) ==
    IF Len(s) = Len(WordOf(s)) THEN 0
    ELSE IF s[SignAt(s)] = "+" THEN DecimalValue(Slice(s, NumberAt(s), NumberEnd(s)))
    ELSE 0 - DecimalValue(Slice(s, NumberAt(s), NumberEnd(s)))

\* C6: when an anchor of a new-style schedule is no valid time
\* specification, lightScheduleForDay returns an error and a schedule
\* without resolved times.
C6_InvalidAnchorAborts ==
    IsDayCall /\ (\E k \in 1..Len(Anchors) : ~GrammarValid(Anchors[k].Time)) =>
        /\ ~ret.panic
        /\ ret.err # "nil"
        /\ ret.schedule.times = <<>>

\* C7: AsTimestamp2 accepts exactly the strings of the grammar, matched as a
\* whole and whatever their case, with the type of their word, and returns
\* an error for every other string.
C7_AcceptsExactlyGrammar ==
    call.op = "AsTimestamp2" =>
        /\ ~ret.panic
        /\ GrammarValid(color.Time) <=> ret.err = "nil"
        /\ GrammarFixed(color.Time) /\ ret.err = "nil" =>
              ret.timePointType = FixedTimePoint
        /\ GrammarSun(LowerCase(color.Time)) /\ ret.err = "nil" =>
              ret.timePointType =
                  IF WordOf(LowerCase(color.Time)) = SUNRISE THEN Sunrise ELSE Sunset

-----------------------------------------------------------------------------
\* C9: lightScheduleForDay uses the first definition, in the order of the
\* configuration, whose AssociatedDeviceIDs holds the light: it returns what
\* it returns for a configuration of that definition alone; when no
\* definition holds the light it returns an error and resolves no times.
C9_FirstMatchWins ==
    IsDayCall =>
        IF Candidates = {}
        THEN /\ ~ret.panic
             /\ ret.err = "Light is not associated with any schedule in configuration"
             /\ ret.schedule.times = <<>>
             /\ ret.schedule.beforeSunrise = <<>>
             /\ ret.schedule.afterSunset = <<>>
        ELSE \A now \in Nows :
                LET alone == lightScheduleForDay(
                                 [Schedules |-> <<configuration.Schedules[FirstCandidate]>>],
                                 call.light, call.date,
                                 [MockSunrise |-> call.sunrise, MockSunset |-> call.sunset],
                                 now)
                IN  /\ ret.panic = alone.panic
                    /\ ret.err = alone.err
                    /\ ret.schedule = alone.schedule

C9_Witness ==
    /\ IsDayCall
    /\ ~ret.panic
    /\ ret.err = "nil"
    /\ \E j \in Candidates :
          /\ j > FirstCandidate
          /\ configuration.Schedules[j].DefaultColorTemperature
                # configuration.Schedules[FirstCandidate].DefaultColorTemperature
    /\ ret.schedule.sunrise.ColorTemperature
          = configuration.Schedules[FirstCandidate].DefaultColorTemperature

\* the definition the call selected has old-style lists only
IsLegacyCall == IsDayCall /\ Candidates # {} /\ Anchors = <<>>

Parseable(e) == TimeParse(e.Time).err = "nil"

\* the old-style entries that parse, each on the day of the call
LegacyExpected(list) ==
    LET kept == SelectSeq(list, Parseable)
    IN  [i \in 1..Len(kept) |->
            [Time |-> StartOfDay(call.date)
                        + TimeParse(kept[i].Time).Hour * MinutesPerHour
                        + TimeParse(kept[i].Time).Minute,
             ColorTemperature |-> kept[i].ColorTemperature,
             Brightness |-> kept[i].Brightness]]

\* C10: in legacy mode lightScheduleForDay does not fail; its beforeSunrise
\* and afterSunset lists hold exactly the entries that parse, in declared
\* order, each at its own instant on the day of the call.
C10_LegacySkipsMalformed ==
    IsLegacyCall =>
        /\ ~ret.panic
        /\ ret.err = "nil"
        /\ ret.schedule.times = <<>>
        /\ ret.schedule.beforeSunrise
              = LegacyExpected(configuration.Schedules[FirstCandidate].BeforeSunrise)
        /\ ret.schedule.afterSunset
              = LegacyExpected(configuration.Schedules[FirstCandidate].AfterSunset)

\* a malformed entry is followed by one that parses, and two kept entries
\* stay in declared order though their instants decrease
C10_Witness ==
    /\ IsLegacyCall
    /\ LET before == configuration.Schedules[FirstCandidate].BeforeSunrise
           after == configuration.Schedules[FirstCandidate].AfterSunset
       IN  /\ Len(before) = 2 /\ ~Parseable(before[1]) /\ Parseable(before[2])
           /\ Len(ret.schedule.beforeSunrise) = 1
           /\ Len(after) = 2
           /\ Len(ret.schedule.afterSunset) = 2
           /\ ret.schedule.afterSunset[2].Time < ret.schedule.afterSunset[1].Time

\* the call resolves a day schedule from an empty new-style list: a direct
\* call of ComputeNewStyleSchedule, or lightScheduleForDay for a selected
\* definition whose Schedule list has no entry (the Schedule field is a
\* slice: a list declared empty and an absent one both have length 0)
FromEmptySchedule ==
    /\ IsBuildCall \/ (IsDayCall /\ Candidates # {})
    /\ Anchors = <<>>

\* C11: resolving a day schedule from an empty new-style anchor list fails
\* with an error: the call returns a non-nil error, it neither panics nor
\* hands back a schedule as success.
C11_EmptyScheduleFails ==
    FromEmptySchedule => ~ret.panic /\ ret.err # "nil"

\* the definition lightScheduleForDay selected, on a successful return
DaySucceeded == IsDayCall /\ Candidates # {} /\ ~ret.panic /\ ret.err = "nil"

SelectedDefinition == configuration.Schedules[FirstCandidate]

\* C12: on every successful return of lightScheduleForDay, new-style or
\* old-style, the schedule's enableWhenLightsAppear is the selected
\* definition's EnableWhenLightsAppear, and its sunrise and sunset points
\* carry the definition's default color temperature and brightness.
C12_FlagAndDefaultsCarried ==
    DaySucceeded =>
        /\ ret.schedule.enableWhenLightsAppear
              = SelectedDefinition.EnableWhenLightsAppear
        /\ ret.schedule.sunrise.ColorTemperature
              = SelectedDefinition.DefaultColorTemperature
        /\ ret.schedule.sunrise.Brightness = SelectedDefinition.DefaultBrightness
        /\ ret.schedule.sunset.ColorTemperature
              = SelectedDefinition.DefaultColorTemperature
        /\ ret.schedule.sunset.Brightness = SelectedDefinition.DefaultBrightness

=============================================================================
